---------------------------- MODULE Spec2Model ----------------------------
(***************************************************************************)
(* Model of the Prize Picker serverless handler (src/picker.js).           *)
(*                                                                         *)
(* A request URL is a sequence of one-character strings.  The handler is   *)
(* a straight-line function; pc is its position.  JavaScript Numbers are   *)
(* modelled as records [k, v]: k = "fin" with the integer value v, or one  *)
(* of "inf", "ninf", "nan".  Number.MAX_VALUE (about 1.8e308, beyond which *)
(* parseInt and + give Infinity) is scaled down to MaxFinite.  Rounding    *)
(* of finite doubles is not modelled: finite arithmetic is exact.          *)
(***************************************************************************)
EXTENDS Integers, Sequences, FiniteSets, TLC

VARIABLES pc, url, segments, idx, prizes, totalWeight, isValid,
          winningNumber, winner, status, body

vars == <<pc, url, segments, idx, prizes, totalWeight, isValid,
          winningNumber, winner, status, body>>

\* ----------------------------------------------------------------- bounds
\* Largest number of path segments in a generated request URL.
MaxSegs == 3
\* Math.random() is drawn from {0/RngDen, ..., (RngDen-1)/RngDen}.
RngDen == 4
\* Scaled-down Number.MAX_VALUE: a magnitude above it is +-Infinity.
MaxFinite == 5

\* ------------------------------------------------------ JavaScript Numbers
Fin(n) == [k |-> "fin", v |-> n]
Infinity == [k |-> "inf", v |-> 0]
NegInfinity == [k |-> "ninf", v |-> 0]
NaN == [k |-> "nan", v |-> 0]

\* The Number nearest to the mathematical integer n (overflow to +-Infinity).
ToNumber(n) ==
    IF n > MaxFinite THEN Infinity
    ELSE IF n < 0 - MaxFinite THEN NegInfinity
    ELSE Fin(n)

\* isNaN(x)
IsNaN(x) == x.k = "nan"

\* x <= 0
LeqZero(x) == x.k = "ninf" \/ (x.k = "fin" /\ x.v <= 0)

\* a + b
Add(a, b) ==
    IF a.k = "nan" \/ b.k = "nan" THEN NaN
    ELSE IF a.k = "fin" /\ b.k = "fin" THEN ToNumber(a.v + b.v)
    ELSE IF a.k = "fin" THEN b
    ELSE IF b.k = "fin" THEN a
    ELSE IF a.k = b.k THEN a
    ELSE NaN

\* Math.random() * t, for the draw r/RngDen.  The result is a Number in
\* units of 1/RngDen (v = r * t stands for r*t/RngDen); 0 * Infinity is NaN.
RandomTimes(r, t) ==
    IF t.k = "nan" THEN NaN
    ELSE IF t.k = "fin" THEN Fin(r * t.v)
    ELSE IF r = 0 THEN NaN
    ELSE t

\* Mutant of LessThan: w <= c.
LessThanOrEqual(w, c) ==
    /\ w.k \in {"fin", "ninf"}
    /\ c.k \in {"fin", "inf"}
    /\ (w.k = "fin" /\ c.k = "fin") => w.v <= c.v * RngDen

\* w < c, for w in units of 1/RngDen and c in units of 1.
LessThan(w, c) ==
    /\ w.k \in {"fin", "ninf"}
    /\ c.k \in {"fin", "inf"}
    /\ (w.k = "fin" /\ c.k = "fin") => w.v < c.v * RngDen

\* ------------------------------------------------------------------ strings
Digits == <<"0", "1", "2", "3", "4", "5", "6", "7", "8", "9">>
IsDigit(c) == \E d \in 1..Len(Digits) : Digits[d] = c
DigitVal(c) == (CHOOSE d \in 1..Len(Digits) : Digits[d] = c) - 1

\* String.prototype.split(sep) for a one-character separator: scan s from
\* position p with the current piece cur and the pieces acc found so far.
RECURSIVE SplitFrom(_, _, _, _, _)
SplitFrom(s, sep, p, cur, acc) ==
    IF p > Len(s) THEN Append(acc, cur)
    ELSE IF s[p] = sep THEN SplitFrom(s, sep, p + 1, <<>>, Append(acc, cur))
    ELSE SplitFrom(s, sep, p + 1, Append(cur, s[p]), acc)

Split(s, sep) == SplitFrom(s, sep, 1, <<>>, <<>>)

\* The longest prefix of s made of decimal digits.
RECURSIVE LeadingDigits(_)
LeadingDigits(s) ==
    IF s = <<>> \/ ~IsDigit(Head(s)) THEN <<>>
    ELSE <<Head(s)>> \o LeadingDigits(Tail(s))

\* The integer a non-empty digit string denotes in base 10.
RECURSIVE DigitsValue(_)
DigitsValue(d) ==
    IF d = <<>> THEN 0
    ELSE 10 * DigitsValue(SubSeq(d, 1, Len(d) - 1)) + DigitVal(d[Len(d)])

\* Mutant of ParseInt: a strict parse, NaN unless every character is a digit.
ParseIntStrict(s) ==
    IF s = <<>> \/ LeadingDigits(s) # s THEN NaN
    ELSE ToNumber(DigitsValue(s))

\* parseInt(s, 10): an optional sign, then the leading digits; NaN when
\* there are none.  (Leading white space, which parseInt skips, cannot
\* occur in a request URL and is not in the alphabet.)
ParseInt(s) ==
    LET neg == s # <<>> /\ Head(s) = "-"
        signed == s # <<>> /\ Head(s) \in {"-", "+"}
        rest == IF signed THEN Tail(s) ELSE s
        d == LeadingDigits(rest)
    IN  IF d = <<>> THEN NaN
        ELSE IF neg THEN ToNumber(0 - DigitsValue(d))
        ELSE ToNumber(DigitsValue(d))

\* ------------------------------------------------------------ request URLs
API == <<"a", "p", "i">>
PICKER == <<"p", "i", "c", "k", "e", "r">>

\* Segments the generated URLs are built from.
SegPool ==
    { <<>>, API, PICKER,
      <<"a", "_", "1">>, <<"b", "_", "2">>,
      <<"a">>, <<"a", "_", "0">>, <<"a", "_", "x">>,
      <<"a", "_", "2", "x">>, <<"a", "_", "b", "_", "1">>,
      <<"_", "1">>, <<"a", "_", "-", "1">>, <<"a", "_", "+", "1">>,
      <<"a", "_", "9">> }

\* Query suffixes: none, or one holding a further segment.
QueryPool == { <<>>, <<"?", "/", "b", "_", "2">> }

\* "/" t1 "/" t2 ... for the sequence ts of segments.
RECURSIVE JoinPath(_)
JoinPath(ts) ==
    IF ts = <<>> THEN <<>>
    ELSE <<"/">> \o Head(ts) \o JoinPath(Tail(ts))

URLs ==
    { JoinPath(ts) \o q :
        ts \in UNION { [1..n -> SegPool] : n \in 0..MaxSegs }, q \in QueryPool }

\* ------------------------------------------------------------ the handler
Null == [null |-> TRUE, name |-> <<>>]
Name(n) == [null |-> FALSE, name |-> n]

NoBody == [error |-> "", usage |-> FALSE, details |-> FALSE,
           hasWinner |-> FALSE, winner |-> Null]
NoPrizesProvided == [error |-> "No prizes provided.", usage |-> TRUE,
                     details |-> FALSE, hasWinner |-> FALSE, winner |-> Null]
InvalidFormat == [error |-> "Invalid format detected.", usage |-> FALSE,
                  details |-> TRUE, hasWinner |-> FALSE, winner |-> Null]
WinnerBody(w) == [error |-> "", usage |-> FALSE, details |-> FALSE,
                  hasWinner |-> TRUE, winner |-> w]

\* Mutant of KeepSegment: the routing tokens are kept.
KeepNonEmpty(s) == Len(s) > 0

\* filter(s => s.length > 0 && s !== 'api' && s !== 'picker')
KeepSegment(s) == Len(s) > 0 /\ s # API /\ s # PICKER

\* req.url.split('?')[0]
PathOf(u) == Split(u, "?")[1]

\* path.split('/').filter(...)
SegmentsOf(u) == SelectSeq(Split(PathOf(u), "/"), KeepSegment)

\* parts.length !== 2
BadParts(parts) == Len(parts) # 2

\* Mutant of BadWeight: the weight <= 0 test is missing.
BadWeightNaNOnly(weight) == IsNaN(weight)

\* isNaN(weight) || weight <= 0
BadWeight(weight) == IsNaN(weight) \/ LeqZero(weight)

\* The loop of lines 72-79 from entry j on with the running cumulativeWeight:
\* the index of the first prize where winningNumber < cumulativeWeight, 0 when
\* the loop ends without one.
RECURSIVE WalkFrom(_, _, _, _)
WalkFrom(ps, w, j, cumulativeWeight) ==
    IF j > Len(ps) THEN 0
    ELSE LET c == Add(cumulativeWeight, ps[j].weight)
         IN  IF LessThan(w, c) THEN j ELSE WalkFrom(ps, w, j + 1, c)

\* let winner = null; ... winner = prize.name
WinnerOf(ps, w) ==
    LET j == WalkFrom(ps, w, 1, Fin(0))
    IN  IF j = 0 THEN Null ELSE Name(ps[j].name)

Init ==
    /\ pc = "idle"
    /\ url = <<>>
    /\ segments = <<>>
    /\ idx = 0
    /\ prizes = <<>>
    /\ totalWeight = Fin(0)
    /\ isValid = TRUE
    /\ winningNumber = Fin(0)
    /\ winner = Null
    /\ status = 0
    /\ body = NoBody

\* A request arrives; lines 17-20.
Receive ==
    /\ pc = "idle"
    /\ \E u \in URLs :
        /\ url' = u
        /\ segments' = SegmentsOf(u)
    /\ idx' = 0
    /\ prizes' = <<>>
    /\ totalWeight' = Fin(0)
    /\ isValid' = TRUE
    /\ winningNumber' = Fin(0)
    /\ winner' = Null
    /\ status' = 0
    /\ body' = NoBody
    /\ pc' = "check"

\* Lines 22-28: no segment left.
RespondNoPrizes ==
    /\ pc = "check"
    /\ Len(segments) = 0
    /\ status' = 400
    /\ body' = NoPrizesProvided
    /\ pc' = "done"
    /\ UNCHANGED <<url, segments, idx, prizes, totalWeight, isValid,
                   winningNumber, winner>>

\* Lines 30-35: the locals of the parse loop, which starts at the first segment.
StartParse ==
    /\ pc = "check"
    /\ Len(segments) # 0
    /\ totalWeight' = Fin(0)
    /\ prizes' = <<>>
    /\ isValid' = TRUE
    /\ idx' = 1
    /\ pc' = "parse"
    /\ UNCHANGED <<url, segments, winningNumber, winner, status, body>>

\* Lines 35-53: one iteration of the parse loop, on segments[idx].
ParseSegment ==
    /\ pc = "parse"
    /\ LET segment == segments[idx]
           parts == Split(segment, "_")
       IN  IF BadParts(parts)
           THEN /\ isValid' = FALSE
                /\ pc' = "validate"
                /\ UNCHANGED <<idx, prizes, totalWeight>>
           ELSE LET name == parts[1]
                    weight == ParseInt(parts[2])
                IN  IF BadWeight(weight)
                    THEN /\ isValid' = FALSE
                         /\ pc' = "validate"
                         /\ UNCHANGED <<idx, prizes, totalWeight>>
                    ELSE /\ prizes' = Append(prizes, [name |-> name, weight |-> weight])
                         /\ totalWeight' = Add(totalWeight, weight)
                         /\ idx' = idx + 1
                         /\ pc' = IF idx = Len(segments) THEN "validate" ELSE "parse"
                         /\ UNCHANGED isValid
    /\ UNCHANGED <<url, segments, winningNumber, winner, status, body>>

\* Lines 55-61.
RespondInvalid ==
    /\ pc = "validate"
    /\ ~isValid
    /\ status' = 400
    /\ body' = InvalidFormat
    /\ pc' = "done"
    /\ UNCHANGED <<url, segments, idx, prizes, totalWeight, isValid,
                   winningNumber, winner>>

\* Line 66: Math.random() * totalWeight.
Draw ==
    /\ pc = "validate"
    /\ isValid
    /\ \E r \in 0..(RngDen - 1) : winningNumber' = RandomTimes(r, totalWeight)
    /\ pc' = "select"
    /\ UNCHANGED <<url, segments, idx, prizes, totalWeight, isValid,
                   winner, status, body>>

\* Lines 68-79: the cumulative walk.
Select ==
    /\ pc = "select"
    /\ winner' = WinnerOf(prizes, winningNumber)
    /\ pc' = "respond"
    /\ UNCHANGED <<url, segments, idx, prizes, totalWeight, isValid,
                   winningNumber, status, body>>

\* Lines 82-84.
RespondWinner ==
    /\ pc = "respond"
    /\ status' = 200
    /\ body' = WinnerBody(winner)
    /\ pc' = "done"
    /\ UNCHANGED <<url, segments, idx, prizes, totalWeight, isValid,
                   winningNumber, winner>>

\* The invocation has returned its response; its locals are discarded and
\* nothing is kept for the next invocation.
Return ==
    /\ pc = "done"
    /\ pc' = "idle"
    /\ url' = <<>>
    /\ segments' = <<>>
    /\ idx' = 0
    /\ prizes' = <<>>
    /\ totalWeight' = Fin(0)
    /\ isValid' = TRUE
    /\ winningNumber' = Fin(0)
    /\ winner' = Null
    /\ status' = 0
    /\ body' = NoBody

Next ==
    \/ Receive
    \/ RespondNoPrizes
    \/ StartParse
    \/ ParseSegment
    \/ RespondInvalid
    \/ Draw
    \/ Select
    \/ RespondWinner
    \/ Return

Spec == Init /\ [][Next]_vars

\* ------------------------------------------------------------------ claims
\* Validation has succeeded: the parse loop ran over every segment of a
\* non-empty segment list without clearing isValid.
Validated ==
    /\ pc \in {"validate", "select", "respond", "done"}
    /\ Len(segments) > 0
    /\ isValid

\* The handler has answered a validated request.
Answered == pc = "done" /\ Validated

Labels(ps) == { ps[i].name : i \in DOMAIN ps }

\* The exact (mathematical) sum of the first n weights of ps, all finite.
RECURSIVE SumTo(_, _)
SumTo(ps, n) == IF n = 0 THEN 0 ELSE SumTo(ps, n - 1) + ps[n].weight.v

AllFinite(ps) == \A i \in DOMAIN ps : ps[i].weight.k = "fin"

\* The winning point w lies in entry i's interval of cumulative weight.
InInterval(ps, w, i) ==
    /\ w.k = "fin"
    /\ AllFinite(ps)
    /\ SumTo(ps, i - 1) * RngDen <= w.v
    /\ w.v < SumTo(ps, i) * RngDen

\* C1: every validated request, whatever the draw, is answered with status
\* 200 and a winner that is the label of an entry of the validated list,
\* never null.
C1_WinnerIsAnEntry ==
    Answered =>
        /\ status = 200
        /\ body.hasWinner
        /\ ~body.winner.null
        /\ body.winner.name \in Labels(prizes)

\* C2: the winner is the entry whose interval [sum before, sum up to)
\* contains the winning point, and only such an entry wins; a winning
\* point of 0 selects the first entry.
C2_FirstCumulativeAbove ==
    (pc = "respond" \/ Answered) =>
        /\ \A i \in DOMAIN prizes :
              InInterval(prizes, winningNumber, i)
                  => winner = Name(prizes[i].name)
        /\ (\A i \in DOMAIN prizes : ~InInterval(prizes, winningNumber, i))
              => winner = Null
        /\ (winningNumber = Fin(0)) => winner = Name(prizes[1].name)

\* C2 witness: the winning point equals the cumulative boundary that ends
\* entry i-1, and the differently labelled entry i has won.
C2_Witness ==
    /\ pc = "respond"
    /\ AllFinite(prizes)
    /\ \E i \in DOMAIN prizes :
          /\ i > 1
          /\ winningNumber = Fin(SumTo(prizes, i - 1) * RngDen)
          /\ prizes[i].name # prizes[i - 1].name
          /\ winner = Name(prizes[i].name)

\* The integer points 0 .. T-1 at which the walk over ps selects entry i.
PointsFor(ps, t, i) ==
    { p \in 0..(t - 1) : WalkFrom(ps, Fin(p * RngDen), 1, Fin(0)) = i }

\* C3: for a validated list the integer winning points 0..TotalWeight-1 each
\* select exactly one entry, and entry i is selected by exactly weight_i of
\* them.
C3_ExactlyProportional ==
    Validated =>
        /\ totalWeight.k = "fin"
        /\ \A p \in 0..(totalWeight.v - 1) :
              WalkFrom(prizes, Fin(p * RngDen), 1, Fin(0)) \in DOMAIN prizes
        /\ \A i \in DOMAIN prizes :
              Cardinality(PointsFor(prizes, totalWeight.v, i)) = prizes[i].weight.v

\* Position of the first "?" of u, Len(u) + 1 when it has none.
QueryPos(u) ==
    IF \E i \in DOMAIN u : u[i] = "?"
    THEN CHOOSE i \in DOMAIN u : u[i] = "?" /\ \A j \in 1..(i - 1) : u[j] # "?"
    ELSE Len(u) + 1

\* Every maximal run of non-"/" characters of u's path is `api` or `picker`.
NoUsableSegment(u) ==
    LET n == QueryPos(u) - 1
    IN  \A a \in 1..n :
            (u[a] # "/" /\ (a = 1 \/ u[a - 1] = "/")) =>
                \E b \in {a + 2, a + 5} :
                    /\ b <= n
                    /\ SubSeq(u, a, b) \in {API, PICKER}
                    /\ (b = n \/ u[b + 1] = "/")

\* C4: a request whose path has no segment besides empty ones, `api` and
\* `picker` ends with status 400 and the NoPrizesProvided payload, and no
\* segment is parsed on the way.
C4_NoPrizesProvided ==
    (pc # "idle" /\ NoUsableSegment(url)) =>
        /\ pc \in {"check", "done"}
        /\ idx = 0
        /\ prizes = <<>>
        /\ pc = "done" => (status = 400 /\ body = NoPrizesProvided)

\* C4 witness: "/api/picker" has been answered with NoPrizesProvided.
C4_Witness ==
    /\ pc = "done"
    /\ url = <<"/">> \o API \o <<"/">> \o PICKER
    /\ status = 400
    /\ body = NoPrizesProvided

\* The positions of "_" in s.
Underscores(s) == { i \in DOMAIN s : s[i] = "_" }

\* The part of s after its first "_".
WeightString(s) ==
    LET u == CHOOSE i \in Underscores(s) : \A j \in Underscores(s) : i <= j
    IN  SubSeq(s, u + 1, Len(s))

\* s is not one label and one weight that parses to a number above zero.
Malformed(s) ==
    \/ Cardinality(Underscores(s)) # 1
    \/ IsNaN(ParseInt(WeightString(s)))
    \/ LeqZero(ParseInt(WeightString(s)))

\* C5: a malformed segment at any position makes the whole request end with
\* status 400 and the InvalidFormat payload, without a winner and without a
\* selection over the valid segments before it.
C5_AllOrNothing ==
    (\E i \in DOMAIN segments : Malformed(segments[i])) =>
        /\ pc \notin {"select", "respond"}
        /\ winner = Null
        /\ pc = "done" => (status = 400 /\ body = InvalidFormat)

\* C5 witness: a request was rejected after a valid first segment.
C5_Witness ==
    /\ pc = "done"
    /\ body = InvalidFormat
    /\ Len(prizes) >= 1
    /\ ~Malformed(segments[1])
    /\ \E i \in DOMAIN segments : Malformed(segments[i])

\* C6: after validation the entry list is non-empty, has one entry per
\* segment in order, every weight is an integer >= 1 and TotalWeight is the
\* sum of the weights, above 0.
C6_ValidatedList ==
    Validated =>
        /\ prizes # <<>>
        /\ Len(prizes) = Len(segments)
        /\ \A i \in DOMAIN prizes :
              /\ prizes[i].name \o <<"_">> \o WeightString(segments[i]) = segments[i]
              /\ prizes[i].weight.k = "fin"
              /\ prizes[i].weight.v >= 1
        /\ totalWeight.k = "fin"
        /\ totalWeight.v = SumTo(prizes, Len(prizes))
        /\ totalWeight.v > 0

\* C7: every entry of a validated list, and so every winner, has a non-empty
\* label without "/" or "_".
C7_LabelsNonEmpty ==
    Validated =>
        /\ \A i \in DOMAIN prizes :
              /\ prizes[i].name # <<>>
              /\ \A j \in DOMAIN prizes[i].name : prizes[i].name[j] \notin {"/", "_"}
        /\ (~winner.null) => winner.name # <<>>

\* Number of leading decimal digits of s.
DigitRun(s) ==
    CHOOSE n \in 0..Len(s) :
        /\ \A i \in 1..n : IsDigit(s[i])
        /\ n < Len(s) => ~IsDigit(s[n + 1])

RECURSIVE Pow10(_)
Pow10(n) == IF n = 0 THEN 1 ELSE 10 * Pow10(n - 1)

\* The integer the first n characters of s, all digits, denote.
RECURSIVE RunValue(_, _)
RunValue(s, n) ==
    IF n = 0 THEN 0
    ELSE DigitVal(s[1]) * Pow10(n - 1) + RunValue(Tail(s), n - 1)

\* C8: a weight-string that starts with digits is accepted with the Number
\* value of its leading digits when that is above 0, whatever follows them;
\* a segment with one "_" is rejected only when its weight-string has no
\* leading digits or their value is <= 0.
C8_LenientWeight ==
    /\ \A i \in DOMAIN prizes :
          LET ws == WeightString(segments[i])
              n == DigitRun(ws)
          IN  n >= 1 => prizes[i].weight = ToNumber(RunValue(ws, n))
    /\ (pc \in {"validate", "done"} /\ ~isValid) =>
          LET s == segments[Len(prizes) + 1]
          IN  Cardinality(Underscores(s)) = 1 =>
                  LET ws == WeightString(s)
                      n == DigitRun(ws)
                  IN  n = 0 \/ RunValue(ws, n) <= 0

\* C8 witness: a weight-string with characters after its digits was accepted
\* with the value of the digits.
C8_Witness ==
    \E i \in DOMAIN prizes :
        LET ws == WeightString(segments[i])
            n == DigitRun(ws)
        IN  /\ n >= 1
            /\ n < Len(ws)
            /\ prizes[i].weight = Fin(RunValue(ws, n))

\* C9: for every reordering of a validated list, each entry is selected by
\* as many of the integer winning points 0..TotalWeight-1 as before, namely
\* its weight.
C9_OrderKeepsDistribution ==
    Validated =>
        /\ totalWeight.k = "fin"
        /\ \A f \in Permutations(DOMAIN prizes) :
              LET qs == [i \in DOMAIN prizes |-> prizes[f[i]]]
              IN  \A i \in DOMAIN prizes :
                      /\ Cardinality(PointsFor(qs, totalWeight.v, i))
                            = Cardinality(PointsFor(prizes, totalWeight.v, f[i]))
                      /\ Cardinality(PointsFor(qs, totalWeight.v, i))
                            = prizes[f[i]].weight.v

\* C10: a successful response always carries a winner; when the walk ends
\* without any entry above the winning point, it is the last entry's label.
C10_FallbackToLast ==
    (pc = "done" /\ status = 200) =>
        /\ ~body.winner.null
        /\ WalkFrom(prizes, winningNumber, 1, Fin(0)) = 0
              => body.winner = Name(prizes[Len(prizes)].name)

=============================================================================
